---- MODULE Spec2Model ----
(***************************************************************************)
(* kubedifflib/_diff.py: the asymmetric structural diff of a declared      *)
(* ("want") tree against a live ("have") tree, the JSONPrinter reporter,   *)
(* and the check_file / check_files orchestration.                         *)
(*                                                                         *)
(* Python values are records of one shape, so that any two values can be   *)
(* compared:                                                               *)
(*   t    the Python type: "NoneType", "bool", "int", "str", "list",       *)
(*        "dict"                                                           *)
(*   s    the text of a str                                                *)
(*   n    the number of an int, and 1 / 0 for the bool True / False        *)
(*   keys the keys of a dict, in the order the dict iterates them          *)
(*   kids the elements of a list, or the values of a dict (kids[i] is the  *)
(*        value of keys[i])                                                *)
(* A generator's result is [out, raised]: the Differences it yielded, in   *)
(* order, and the exception that ended it ("" when it ran to its end).     *)
(***************************************************************************)
EXTENDS Integers, Sequences, FiniteSets, TLC

VARIABLES
  path,         \* diff: the 'path' argument
  want,         \* diff: the 'want' argument
  have,         \* diff: the 'have' argument
  yielded,      \* diff: the Differences a consumer of the generator received
  paths,        \* check_files: the files iter_files(paths) yields, in order
  idx,          \* check_files: position of the for loop in 'paths'
  differences,  \* check_files: the local 'differences'
  ret,          \* check_files: the returned value (PyNone until it returns)
  data,         \* JSONPrinter: self.data, kind -> name -> list of entries
  calls,        \* the printer calls made so far, in order
  fetched,      \* what get_from_cluster did on each call so far, in order
  pc,           \* where the modelled call is
  raised        \* the exception that ended the modelled call, "" if none

vars == <<path, want, have, yielded, paths, idx, differences, ret, data, calls, fetched,
          pc, raised>>

diffVars == <<path, want, have, yielded>>
batchVars == <<paths, idx, differences, ret, fetched>>
printerVars == <<data, calls>>

----------------------------------------------------------------------------
(* Bounds *)

MaxLen == 2      \* longest list among the generated trees
MaxFiles == 3    \* longest batch of files given to check_files
MaxCalls == 3    \* longest sequence of calls made on a JSONPrinter

----------------------------------------------------------------------------
(* Python values *)

PyNone == [t |-> "NoneType", s |-> "", n |-> 0, keys |-> <<>>, kids |-> <<>>]
PyStr(str) == [t |-> "str", s |-> str, n |-> 0, keys |-> <<>>, kids |-> <<>>]
PyInt(i) == [t |-> "int", s |-> "", n |-> i, keys |-> <<>>, kids |-> <<>>]
PyBool(b) == [t |-> "bool", s |-> "", n |-> IF b THEN 1 ELSE 0, keys |-> <<>>, kids |-> <<>>]
PyList(elems) == [t |-> "list", s |-> "", n |-> 0, keys |-> <<>>, kids |-> elems]
PyDict(ks, vs) == [t |-> "dict", s |-> "", n |-> 0, keys |-> ks, kids |-> vs]

Range(f) == {f[i] : i \in DOMAIN f}

\* isinstance(v, dict), isinstance(v, list)
IsDict(v) == v.t = "dict"
IsList(v) == v.t = "list"

\* bool is a subclass of int: True and False are the numbers 1 and 0.
IsNumber(v) == v.t \in {"int", "bool"}

\* Python's a == b on these values.
RECURSIVE PyEq(_, _)
PyEq(a, b) ==
  CASE IsNumber(a) /\ IsNumber(b) -> a.n = b.n
    [] a.t = "str" /\ b.t = "str" -> a.s = b.s
    [] a.t = "NoneType" /\ b.t = "NoneType" -> TRUE
    [] IsList(a) /\ IsList(b) ->
         /\ Len(a.kids) = Len(b.kids)
         /\ \A i \in 1..Len(a.kids) : PyEq(a.kids[i], b.kids[i])
    [] IsDict(a) /\ IsDict(b) ->
         /\ Range(a.keys) = Range(b.keys)
         /\ \A i \in 1..Len(a.keys) : \A j \in 1..Len(b.keys) :
              a.keys[i] = b.keys[j] => PyEq(a.kids[i], b.kids[j])
    [] OTHER -> FALSE

\* len(v) is defined for str, list and dict and raises TypeError otherwise.
HasLen(v) == v.t \in {"str", "list", "dict"}
PyLen(v) ==
  CASE v.t = "str" -> Len(v.s)
    [] v.t = "list" -> Len(v.kids)
    [] v.t = "dict" -> Len(v.keys)
    [] OTHER -> 0

\* What iterating v produces (zip iterates 'have'): the elements of a list,
\* the keys of a dict, the characters of a str.
PyIter(v) ==
  CASE v.t = "list" -> v.kids
    [] v.t = "dict" -> [i \in 1..Len(v.keys) |-> PyStr(v.keys[i])]
    [] v.t = "str" -> [i \in 1..Len(v.s) |-> PyStr(SubSeq(v.s, i, i))]
    [] OTHER -> <<>>

\* 'k in v' for a str k: "yes", "no", or "TypeError" when v is no container.
\* On a dict it tests the keys, on a list the elements (by ==), on a str it
\* is the substring test.
PyContains(v, k) ==
  CASE v.t = "dict" -> IF k \in Range(v.keys) THEN "yes" ELSE "no"
    [] v.t = "list" -> IF \E i \in 1..Len(v.kids) : PyEq(PyStr(k), v.kids[i])
                       THEN "yes" ELSE "no"
    [] v.t = "str" -> IF k = "" \/ \E i \in 1..Len(v.s) : \E j \in i..Len(v.s) :
                                       SubSeq(v.s, i, j) = k
                      THEN "yes" ELSE "no"
    [] OTHER -> "TypeError"

\* v[k] for a str k is defined on a dict that has k; a list or a str raises
\* TypeError (their indices must be integers).
CanGetItem(v, k) == IsDict(v) /\ k \in Range(v.keys)
PyGetItem(v, k) == v.kids[CHOOSE i \in 1..Len(v.keys) : v.keys[i] = k]

----------------------------------------------------------------------------
(* Difference and its constructors *)

Difference(message, p, args) == [message |-> message, path |-> p, args |-> args]

different_lengths(p, w, h) ==
  Difference("Unequal lengths: %d != %d", PyStr(p), <<PyInt(PyLen(w)), PyInt(PyLen(h))>>)

missing_item(p, k) == Difference("'%s' missing", PyStr(p), <<PyStr(k)>>)

not_equal(p, w, h) == Difference("'%s' != '%s'", PyStr(p), <<w, h>>)

broken_cluster(output) == Difference(" *** %s", PyNone, <<PyStr(output)>>)

\* Placeholders in the call log, for calls that carry no object or Difference.
NoObject == [namespace |-> "", kind |-> "", name |-> ""]
NoDifference == Difference("", PyNone, <<>>)

----------------------------------------------------------------------------
(* The diff generators *)

Done == [out |-> <<>>, raised |-> ""]
Yield(d) == [out |-> <<d>>, raised |-> ""]
Raise(e) == [out |-> <<>>, raised |-> e]

\* A generator that runs 'first' and, unless it raised, goes on with 'rest'.
Then(first, rest) ==
  IF first.raised # "" THEN first
  ELSE [out |-> first.out \o rest.out, raised |-> rest.raised]

RECURSIVE diff(_, _, _)
RECURSIVE diff_lists_from(_, _, _, _)
RECURSIVE diff_dicts_from(_, _, _, _)

\* The for loop of diff_lists from its i-th iteration (i counts from 1;
\* the path carries the Python index i - 1).
diff_lists_from(p, w, h, i) ==
  IF i > Len(w.kids) \/ i > Len(PyIter(h)) THEN Done
  ELSE Then(diff(p \o "[" \o ToString(i - 1) \o "]", w.kids[i], PyIter(h)[i]),
            diff_lists_from(p, w, h, i + 1))

\* diff_lists reporting the lengths only when want is the longer one.
diff_lists_longer_only(p, w, h) ==
  IF ~HasLen(h) THEN Raise("TypeError")
  ELSE Then(IF PyLen(w) > PyLen(h) THEN Yield(different_lengths(p, w, h)) ELSE Done,
            diff_lists_from(p, w, h, 1))

diff_lists(p, w, h) ==
  IF ~HasLen(h) THEN Raise("TypeError")
  ELSE Then(IF PyLen(w) # PyLen(h) THEN Yield(different_lengths(p, w, h)) ELSE Done,
            diff_lists_from(p, w, h, 1))

\* The for loop of diff_dicts from the i-th item of want.iteritems().
diff_dicts_from(p, w, h, i) ==
  IF i > Len(w.keys) THEN Done
  ELSE LET k == w.keys[i]
           key_path == p \o "." \o k
           found == PyContains(h, k)
           item == CASE found = "TypeError" -> Raise("TypeError")
                     [] found = "no" -> Yield(missing_item(p, k))
                     [] OTHER -> IF CanGetItem(h, k)
                                 THEN diff(key_path, w.kids[i], PyGetItem(h, k))
                                 ELSE Raise("TypeError")
       IN Then(item, diff_dicts_from(p, w, h, i + 1))

\* diff_dicts comparing both ways: the keys only have has are reported too.
diff_dicts_symmetric(p, w, h) ==
  Then(diff_dicts_from(p, w, h, 1),
       IF IsDict(h) /\ \E i \in 1..Len(h.keys) : h.keys[i] \notin Range(w.keys)
       THEN Yield(missing_item(p, h.keys[CHOOSE i \in 1..Len(h.keys) :
                                           h.keys[i] \notin Range(w.keys)]))
       ELSE Done)

diff_dicts(p, w, h) == diff_dicts_from(p, w, h, 1)

diff(p, w, h) ==
  IF IsDict(w) THEN diff_dicts(p, w, h)
  ELSE IF IsList(w) THEN diff_lists(p, w, h)
  ELSE IF ~PyEq(w, h) THEN Yield(not_equal(p, w, h))
  ELSE Done

----------------------------------------------------------------------------
(* KubeObject *)

KubeObject(namespace, kind, name) == [namespace |-> namespace, kind |-> kind, name |-> name]

\* KubeObject.from_dict raises KeyError when 'kind', 'metadata' or the
\* metadata's 'name' is missing.
CanFromDict(d) ==
  /\ CanGetItem(d, "kind")
  /\ CanGetItem(d, "metadata")
  /\ CanGetItem(PyGetItem(d, "metadata"), "name")

from_dict(d) ==
  LET metadata == PyGetItem(d, "metadata")
  IN KubeObject(IF CanGetItem(metadata, "namespace")
                THEN PyGetItem(metadata, "namespace").s ELSE "default",
                PyGetItem(d, "kind").s,
                PyGetItem(metadata, "name").s)

----------------------------------------------------------------------------
(* The printers.  'calls' is the sequence of add / diff / finish calls a    *)
(* printer received (what StdoutPrinter prints, call by call); 'data' is    *)
(* JSONPrinter's self.data, which finish() serializes.                      *)

Call(op, obj, difference) == [op |-> op, obj |-> obj, difference |-> difference]

\* dict.setdefault(k, default): the dict afterwards.
SetDefault(d, k, default) == IF k \in DOMAIN d THEN d ELSE d @@ (k :> default)

\* [difference.path] + list(difference.args)
Entry(difference) == <<difference.path>> \o difference.args

\* add assigning an empty list instead of using setdefault.
JSONPrinter_add_reset(d, kube_obj) ==
  LET byKind == SetDefault(d, kube_obj.kind, <<>>)
  IN [byKind EXCEPT ![kube_obj.kind] =
        [name \in DOMAIN @ \cup {kube_obj.name} |->
           IF name = kube_obj.name THEN <<>> ELSE @[name]]]

JSONPrinter_add(d, kube_obj) ==
  LET byKind == SetDefault(d, kube_obj.kind, <<>>)
  IN [byKind EXCEPT ![kube_obj.kind] = SetDefault(byKind[kube_obj.kind], kube_obj.name, <<>>)]

\* self.data[kind][name] raises KeyError for an object that was never added.
JSONPrinter_can_diff(d, kube_obj) ==
  kube_obj.kind \in DOMAIN d /\ kube_obj.name \in DOMAIN d[kube_obj.kind]

JSONPrinter_diff(d, kube_obj, difference) ==
  [d EXCEPT ![kube_obj.kind][kube_obj.name] = Append(@, Entry(difference))]

----------------------------------------------------------------------------
(* check_file *)

\* What get_from_cluster did: returned the parsed output of kubectl, or
\* raised CalledProcessError carrying the output.
Fetched(running) == [ok |-> TRUE, running |-> running, output |-> ""]
FetchFailed(output) == [ok |-> FALSE, running |-> PyNone, output |-> output]

\* printer.diff(kube_obj, d) for each d of ds, in order.
RECURSIVE ReportAll(_, _, _, _)
ReportAll(d, cs, kube_obj, ds) ==
  IF ds = <<>> THEN [data |-> d, calls |-> cs]
  ELSE ReportAll(JSONPrinter_diff(d, kube_obj, Head(ds)),
                 Append(cs, Call("diff", kube_obj, Head(ds))), kube_obj, Tail(ds))

\* check_file(printer, path) on a file holding 'expected', the fetch doing
\* 'fetch': the printer afterwards, the value returned (PyNone for a bare
\* return) and the exception raised, if any.
check_file(d, cs, expected, fetch) ==
  IF ~CanFromDict(expected)
  THEN [data |-> d, calls |-> cs, ret |-> PyNone, raised |-> "KeyError"]
  ELSE LET kube_obj == from_dict(expected)
           added == [data |-> JSONPrinter_add(d, kube_obj),
                     calls |-> Append(cs, Call("add", kube_obj, NoDifference))]
       IN IF ~fetch.ok
          THEN LET after == ReportAll(added.data, added.calls, kube_obj,
                                      <<broken_cluster(fetch.output)>>)
               IN [data |-> after.data, calls |-> after.calls,
                   ret |-> PyNone, raised |-> ""]
          ELSE LET r == diff("", expected, fetch.running)
                   after == ReportAll(added.data, added.calls, kube_obj, r.out)
               IN [data |-> after.data, calls |-> after.calls,
                   ret |-> PyInt(Len(r.out)), raised |-> r.raised]

\* os.path.splitext(path)[1], for a path without directory separators.
Extension(p) ==
  LET dots == {i \in 1..Len(p) : SubSeq(p, i, i) = "."}
      last == IF dots = {} THEN 0 ELSE CHOOSE i \in dots : \A j \in dots : j <= i
  IN IF last <= 1 THEN "" ELSE SubSeq(p, last, Len(p))

----------------------------------------------------------------------------
(* The trees diff is run on *)

SeqsUpTo(S, n) == UNION {[1..k -> S] : k \in 0..n}

Keys == {"a", "x"}

\* The orders in which a dict over Keys may iterate its keys.
KeyOrders == {ks \in SeqsUpTo(Keys, Cardinality(Keys)) :
                \A i, j \in 1..Len(ks) : ks[i] = ks[j] => i = j}

ListsOver(S) == {PyList(elems) : elems \in SeqsUpTo(S, MaxLen)}
DictsOver(S) == UNION {{PyDict(ks, vs) : vs \in [1..Len(ks) -> S]} : ks \in KeyOrders}

Scalars == {PyNone, PyBool(TRUE), PyInt(1), PyInt(2), PyStr("1"), PyStr("a")}
Leaves == {PyInt(1), PyInt(2), PyStr("a")}
Nested == {PyInt(1), PyList(<<PyInt(1)>>),
           PyDict(<<"x">>, <<PyInt(1)>>), PyDict(<<"x">>, <<PyInt(2)>>)}

Trees == Scalars \cup ListsOver(Leaves) \cup DictsOver(Leaves)
                 \cup ListsOver(Nested) \cup DictsOver(Nested)

Paths == {"", ".spec"}

----------------------------------------------------------------------------
(* State the three specifications leave alone *)

DiffIdle == path = "" /\ want = PyNone /\ have = PyNone /\ yielded = <<>>
BatchIdle == paths = <<>> /\ idx = 0 /\ differences = 0 /\ ret = PyNone /\ fetched = <<>>
PrinterNew == data = <<>> /\ calls = <<>>

----------------------------------------------------------------------------
(* SpecDiff: one call of diff, consumed to its end *)

InitDiff ==
  /\ path \in Paths
  /\ want \in Trees
  /\ have \in Trees
  /\ yielded = <<>>
  /\ raised = ""
  /\ pc = "ready"
  /\ BatchIdle
  /\ PrinterNew

\* for difference in diff(path, want, have): the consumer receives what the
\* generator yields until it ends or raises.
RunDiff ==
  /\ pc = "ready"
  /\ LET r == diff(path, want, have)
     IN /\ yielded' = r.out
        /\ raised' = r.raised
  /\ pc' = "done"
  /\ UNCHANGED <<path, want, have, batchVars, printerVars>>

NextDiff == RunDiff

SpecDiff == InitDiff /\ [][NextDiff]_vars

----------------------------------------------------------------------------
(* SpecBatch: one call of check_files(paths, printer) *)

Metadata(name) == PyDict(<<"name">>, <<PyStr(name)>>)

\* yaml.load of each file of the checked directory.
FileNames == {"web.yaml", "web2.yaml", "db.yaml", "bad.yaml", "notes.txt"}
FileContent(p) ==
  CASE p = "web.yaml" ->
         PyDict(<<"kind", "metadata", "replicas">>,
                <<PyStr("Pod"), Metadata("web"), PyInt(1)>>)
    [] p = "web2.yaml" ->
         PyDict(<<"kind", "metadata", "replicas">>,
                <<PyStr("Pod"), Metadata("web"), PyInt(2)>>)
    [] p = "db.yaml" ->
         PyDict(<<"metadata", "kind">>,
                <<PyDict(<<"name", "namespace">>, <<PyStr("db"), PyStr("prod")>>),
                  PyStr("Service")>>)
    [] p = "bad.yaml" -> PyDict(<<"kind">>, <<PyStr("Pod")>>)
    [] OTHER -> PyStr("notes")

\* What 'kubectl get -o=yaml' may answer: a live object, empty output (which
\* yaml.load turns into None), or a non-zero exit.
LiveObjects ==
  {PyDict(<<"kind", "metadata", "replicas", "status">>,
          <<PyStr("Pod"), PyDict(<<"name", "uid">>, <<PyStr("web"), PyStr("1")>>),
            PyInt(1), PyStr("Running")>>),
   PyDict(<<"kind", "metadata">>, <<PyStr("Service"), Metadata("db")>>)}
FetchOutcomes ==
  {Fetched(r) : r \in LiveObjects \cup {PyNone}} \cup {FetchFailed("NotFound")}

InitBatch ==
  /\ paths \in SeqsUpTo(FileNames, MaxFiles)
  /\ idx = 1
  /\ differences = 0
  /\ ret = PyNone
  /\ fetched = <<>>
  /\ pc = "loop"
  /\ raised = ""
  /\ DiffIdle
  /\ PrinterNew

\* One iteration of the for loop on a file that is not a .yaml file.
SkipFile ==
  /\ pc = "loop"
  /\ idx <= Len(paths)
  /\ Extension(paths[idx]) # ".yaml"
  /\ idx' = idx + 1
  /\ UNCHANGED <<diffVars, paths, differences, ret, fetched, printerVars, pc, raised>>

\* One iteration on a .yaml file: differences += check_file(printer, path).
\* Adding None to an int raises TypeError; an exception leaves check_files.
CheckFile ==
  /\ pc = "loop"
  /\ idx <= Len(paths)
  /\ Extension(paths[idx]) = ".yaml"
  /\ \E fetch \in FetchOutcomes :
       LET expected == FileContent(paths[idx])
           r == check_file(data, calls, expected, fetch)
           failure == IF r.raised # "" THEN r.raised
                      ELSE IF r.ret.t = "NoneType" THEN "TypeError" ELSE ""
       IN /\ data' = r.data
          /\ calls' = r.calls
          /\ fetched' = IF CanFromDict(expected) THEN Append(fetched, fetch) ELSE fetched
          /\ IF failure # ""
             THEN /\ pc' = "raised"
                  /\ raised' = failure
                  /\ UNCHANGED <<idx, differences>>
             ELSE /\ differences' = differences + r.ret.n
                  /\ idx' = idx + 1
                  /\ UNCHANGED <<pc, raised>>
  /\ UNCHANGED <<diffVars, paths, ret>>

\* After the loop: printer.finish(); return bool(differences).
FinishBatch ==
  /\ pc = "loop"
  /\ idx > Len(paths)
  /\ calls' = Append(calls, Call("finish", NoObject, NoDifference))
  /\ ret' = PyBool(differences # 0)
  /\ pc' = "returned"
  /\ UNCHANGED <<diffVars, paths, idx, differences, fetched, data, raised>>

NextBatch == SkipFile \/ CheckFile \/ FinishBatch

SpecBatch == InitBatch /\ [][NextBatch]_vars

----------------------------------------------------------------------------
(* SpecPrinter: a JSONPrinter receiving any calls *)

Objects == {KubeObject("default", "Pod", "web"), KubeObject("prod", "Pod", "web"),
            KubeObject("default", "Pod", "api"), KubeObject("default", "Service", "web")}
Reported == {broken_cluster("NotFound"), not_equal(".replicas", PyInt(1), PyInt(2))}

InitPrinter ==
  /\ PrinterNew
  /\ pc = "printer"
  /\ raised = ""
  /\ DiffIdle
  /\ BatchIdle

PrinterAdd ==
  /\ pc = "printer"
  /\ Len(calls) < MaxCalls
  /\ \E kube_obj \in Objects :
       /\ data' = JSONPrinter_add(data, kube_obj)
       /\ calls' = Append(calls, Call("add", kube_obj, NoDifference))
  /\ raised' = ""
  /\ UNCHANGED <<diffVars, batchVars, pc>>

PrinterDiff ==
  /\ pc = "printer"
  /\ Len(calls) < MaxCalls
  /\ \E kube_obj \in Objects, difference \in Reported :
       IF JSONPrinter_can_diff(data, kube_obj)
       THEN /\ data' = JSONPrinter_diff(data, kube_obj, difference)
            /\ calls' = Append(calls, Call("diff", kube_obj, difference))
            /\ raised' = ""
       ELSE /\ raised' = "KeyError"
            /\ UNCHANGED <<data, calls>>
  /\ UNCHANGED <<diffVars, batchVars, pc>>

\* finish() prints self.data and leaves it as it is.
PrinterFinish ==
  /\ pc = "printer"
  /\ Len(calls) < MaxCalls
  /\ calls' = Append(calls, Call("finish", NoObject, NoDifference))
  /\ raised' = ""
  /\ UNCHANGED <<diffVars, batchVars, data, pc>>

NextPrinter == PrinterAdd \/ PrinterDiff \/ PrinterFinish

SpecPrinter == InitPrinter /\ [][NextPrinter]_vars

----------------------------------------------------------------------------
(* Properties of diff, checked under SpecDiff *)

Result == [out |-> yielded, raised |-> raised]

Min(a, b) == IF a < b THEN a ELSE b

\* The concatenation of f[1], ..., f[n], each a sequence.
RECURSIVE Flatten(_, _)
Flatten(f, n) == IF n = 0 THEN <<>> ELSE Flatten(f, n - 1) \o f[n]

\* The keys and values added to 'have' by the asymmetry law.
ExtraKeys == Keys \cup {"extra"}
ExtraValues == {PyNone, PyInt(1), PyDict(<<"x">>, <<PyInt(2)>>)}

\* Every tree got from h by adding, at one position where both w and h are
\* dicts, one key that neither w nor h has there.
RECURSIVE ExtraVariants(_, _)
ExtraVariants(w, h) ==
  IF IsDict(w) /\ IsDict(h)
  THEN {PyDict(Append(h.keys, k), Append(h.kids, v)) :
          k \in ExtraKeys \ (Range(w.keys) \cup Range(h.keys)), v \in ExtraValues}
       \cup UNION {UNION {{PyDict(h.keys, [h.kids EXCEPT ![j] = c]) :
                             c \in ExtraVariants(w.kids[i], h.kids[j])} :
                          j \in {m \in 1..Len(h.keys) : h.keys[m] = w.keys[i]}} :
                   i \in 1..Len(w.keys)}
  ELSE IF IsList(w) /\ IsList(h)
  THEN UNION {{PyList([h.kids EXCEPT ![i] = c]) :
                 c \in ExtraVariants(w.kids[i], h.kids[i])} :
              i \in 1..Min(Len(w.kids), Len(h.kids))}
  ELSE {}

\* C4: adding to have, at any depth where want is a mapping, a key that want
\* does not have there leaves what diff(path, want, have) yields unchanged.
AsymmetryLaw ==
  pc = "done" => \A hv \in ExtraVariants(want, have) : diff(path, want, hv) = Result

\* C4 witness: a nested mapping with a difference, compared again with extra
\* keys in have.
AsymmetryWitness ==
  /\ pc = "done"
  /\ want = PyDict(<<"a">>, <<PyDict(<<"x">>, <<PyInt(1)>>)>>)
  /\ have = PyDict(<<"a">>, <<PyDict(<<"x">>, <<PyInt(2)>>)>>)
  /\ Cardinality(ExtraVariants(want, have)) > 3
  /\ Len(yielded) = 1

ShapeMismatch(w, h) == (IsDict(w) /\ ~IsDict(h)) \/ (IsList(w) /\ ~IsList(h))

\* C5: when have's shape cannot satisfy want's (a mapping against a
\* non-mapping, a sequence against a non-sequence), diff never fails with an
\* error.
ShapeMismatchNeverRaises ==
  (pc = "done" /\ ShapeMismatch(want, have)) => raised = ""

\* What the sequence rule says diff yields for two sequences: the 'unequal
\* lengths' Difference iff the lengths differ, then the Differences of every
\* compared pair of elements, in increasing index.
SequenceRuleOut(p, w, h) ==
  (IF Len(w.kids) # Len(h.kids) THEN <<different_lengths(p, w, h)>> ELSE <<>>)
  \o Flatten([i \in 1..Min(Len(w.kids), Len(h.kids)) |->
                diff(p \o "[" \o ToString(i - 1) \o "]", w.kids[i], h.kids[i]).out],
             Min(Len(w.kids), Len(h.kids)))

\* C6: for a sequence want and a sequence have, diff yields exactly what the
\* sequence rule says.
SequenceRule ==
  (pc = "done" /\ IsList(want) /\ IsList(have)) => yielded = SequenceRuleOut(path, want, have)

\* The sequence rule on the runs that raise nothing.
SequenceRuleUnlessRaised ==
  (pc = "done" /\ IsList(want) /\ IsList(have) /\ raised = "")
    => yielded = SequenceRuleOut(path, want, have)

IsScalar(v) == ~IsDict(v) /\ ~IsList(v)

\* C7: for a scalar want, diff yields nothing when want and have are the same
\* value of the same type, and exactly one 'not equal' Difference otherwise
\* (values of different types are unequal).
ScalarRule ==
  (pc = "done" /\ IsScalar(want))
    => /\ raised = ""
       /\ yielded = IF want = have THEN <<>> ELSE <<not_equal(path, want, have)>>

IsEmptyContainer(v) == (IsDict(v) \/ IsList(v)) /\ v.keys = <<>> /\ v.kids = <<>>

\* C9 as stated: an empty mapping or an empty sequence as want yields no
\* Difference, whatever have is.
EmptyWantYieldsNothing ==
  (pc = "done" /\ IsEmptyContainer(want)) => yielded = <<>>

\* C9 as amended: an empty mapping yields nothing; an empty sequence yields
\* nothing when have has length zero or no length, and exactly one 'unequal
\* lengths' Difference carrying (0, len(have)) otherwise.
EmptyWantRule ==
  (pc = "done" /\ IsEmptyContainer(want))
    => yielded = IF IsList(want) /\ HasLen(have) /\ PyLen(have) # 0
                 THEN <<Difference("Unequal lengths: %d != %d", PyStr(path),
                                   <<PyInt(0), PyInt(PyLen(have))>>)>>
                 ELSE <<>>

\* C9 witness: an empty sequence was compared with a sequence of one element
\* and one 'unequal lengths' Difference came out.
EmptyWantWitness ==
  /\ pc = "done"
  /\ want = PyList(<<>>)
  /\ have = PyList(<<PyInt(1)>>)
  /\ Len(yielded) = 1

\* What the mapping rule says diff yields for two mappings: for each key of
\* want, one 'missing item' Difference at the mapping's own path when have
\* lacks the key, and the Differences of the two values at path + ".k"
\* otherwise.
MappingRuleOut(p, w, h) ==
  Flatten([i \in 1..Len(w.keys) |->
             IF w.keys[i] \notin Range(h.keys)
             THEN <<missing_item(p, w.keys[i])>>
             ELSE diff(p \o "." \o w.keys[i], w.kids[i], PyGetItem(h, w.keys[i])).out],
          Len(w.keys))

\* C10: started at the root path, diff of a mapping against a mapping yields
\* exactly what the mapping rule says, each Difference carrying the path of
\* the place it was detected at.
PathAddressing ==
  (pc = "done" /\ path = "" /\ IsDict(want) /\ IsDict(have))
    => yielded = MappingRuleOut(path, want, have)

\* The mapping rule on the runs that raise nothing.
PathAddressingUnlessRaised ==
  (pc = "done" /\ path = "" /\ IsDict(want) /\ IsDict(have) /\ raised = "")
    => yielded = MappingRuleOut(path, want, have)

\* want = {a: {x: 1}} against have = {a: {x: 2}} yields one Difference, at
\* ".a.x".
PathExample ==
  (/\ pc = "done" /\ path = ""
   /\ want = PyDict(<<"a">>, <<PyDict(<<"x">>, <<PyInt(1)>>)>>)
   /\ have = PyDict(<<"a">>, <<PyDict(<<"x">>, <<PyInt(2)>>)>>))
    => yielded = <<Difference("'%s' != '%s'", PyStr(".a.x"), <<PyInt(1), PyInt(2)>>)>>

----------------------------------------------------------------------------
(* Properties of check_files, checked under SpecBatch *)

Terminated == pc \in {"returned", "raised"}

YamlFiles == {i \in 1..Len(paths) : Extension(paths[i]) = ".yaml"}

CallsOf(op) == SelectSeq(calls, LAMBDA c : c.op = op)

\* C1: a batch of one declared object whose fetch fails ends with exactly one
\* Difference reported for the object, the broken-cluster one with a null
\* path, and check_files returns true.
FetchFailureIsADifference ==
  (/\ Terminated
   /\ Len(paths) = 1
   /\ CanFromDict(FileContent(paths[1]))
   /\ fetched = <<FetchFailed("NotFound")>>)
    => /\ CallsOf("diff") = <<Call("diff", from_dict(FileContent(paths[1])),
                                   broken_cluster("NotFound"))>>
       /\ pc = "returned"
       /\ ret = PyBool(TRUE)

\* C2: a failed fetch ends the check of its own object only: when check_files
\* is over, every declared object of the batch was registered with the
\* printer, also those that come after an object whose fetch failed.
FetchFailureIsLocal ==
  (/\ Terminated
   /\ \A i \in YamlFiles : CanFromDict(FileContent(paths[i]))
   /\ \E k \in 1..Len(fetched) : ~fetched[k].ok)
    => /\ Len(CallsOf("add")) = Cardinality(YamlFiles)
       /\ Len(fetched) = Cardinality(YamlFiles)

\* C3: whatever each fetch did, check_files calls printer.finish() exactly
\* once, after the last object, and no other printer call follows it.
FinishExactlyOnce ==
  (/\ Terminated
   /\ \A i \in YamlFiles : CanFromDict(FileContent(paths[i]))
   /\ \A k \in 1..Len(fetched) : fetched[k].ok => IsDict(fetched[k].running))
    => /\ Len(CallsOf("finish")) = 1
       /\ calls[Len(calls)].op = "finish"
       /\ Len(CallsOf("add")) = Cardinality(YamlFiles)

----------------------------------------------------------------------------
(* Properties of JSONPrinter, checked under SpecPrinter *)

\* The entries of the diff calls made for (kind, name), in call order.
EntriesOf(kind, name) ==
  LET ds == SelectSeq(calls, LAMBDA c : c.op = "diff" /\ c.obj.kind = kind
                                            /\ c.obj.name = name)
  IN [i \in 1..Len(ds) |-> Entry(ds[i].difference)]

Registered == {<<c.obj.kind, c.obj.name>> : c \in Range(CallsOf("add"))}

\* The (kind, name) pairs self.data has an entry for.
InData == UNION {{<<kind, name>> : name \in DOMAIN data[kind]} : kind \in DOMAIN data}

\* C8: add is idempotent: after any calls, self.data holds one entry for each
\* (kind, name) that was added, however often, and the entry holds exactly
\* the [path] + args of the diff calls made for it, in order; an add never
\* clears or changes them.
AddIsIdempotent ==
  /\ InData = Registered
  /\ \A kn \in InData : data[kn[1]][kn[2]] = EntriesOf(kn[1], kn[2])

\* C8 witness: an object added twice, then one difference recorded: one
\* entry, holding that one difference.
AddTwiceWitness ==
  LET o == KubeObject("default", "Pod", "web")
      d == not_equal(".replicas", PyInt(1), PyInt(2))
  IN /\ calls = <<Call("add", o, NoDifference), Call("add", o, NoDifference),
                  Call("diff", o, d)>>
     /\ DOMAIN data = {"Pod"}
     /\ DOMAIN data["Pod"] = {"web"}
     /\ data["Pod"]["web"] = <<<<PyStr(".replicas"), PyInt(1), PyInt(2)>>>>

====
